---- MODULE Spec2Model ----
(***************************************************************************)
(* Model of src/helper.js of route-label: the route-table builder           *)
(* (register and the helpers it calls) and the pure helpers                 *)
(* tokensToString, buildPath and isTerminalRoute.                           *)
(*                                                                          *)
(* A JavaScript string is modelled as the sequence of its characters, each  *)
(* character a one-character TLA+ string: '/:a' is <<"/", ":", "a">> and '' *)
(* is <<>>.  An array is a sequence of such values.                         *)
(***************************************************************************)
EXTENDS Integers, Sequences, FiniteSets, TLC

VARIABLES routeTable, before, nameHierarchy, pathHierarchy, result, calls, input, output

vars == <<routeTable, before, nameHierarchy, pathHierarchy, result, calls, input, output>>

(***************************************************************************)
(* Bounds of the model.                                                     *)
(***************************************************************************)
MaxCalls == 2
MaxPathDepth == 2
MaxBuildDepth == 3
MaxPatternLen == 5

(***************************************************************************)
(* Characters and string helpers (JavaScript built-ins).                    *)
(***************************************************************************)
Lower == {"a","b","c","d","e","f","g","h","i","j","k","l","m",
          "n","o","p","q","r","s","t","u","v","w","x","y","z"}

Upper == {"A","B","C","D","E","F","G","H","I","J","K","L","M",
          "N","O","P","Q","R","S","T","U","V","W","X","Y","Z"}

Digit == {"0","1","2","3","4","5","6","7","8","9"}

\* the character class [-_.a-zA-Z0-9] of both regular expressions
NameChar == {"-", "_", "."} \cup Lower \cup Upper \cup Digit

\* Array.prototype.join(sep) on an array of strings
RECURSIVE join(_, _)
join(arr, sep) ==
  IF Len(arr) = 0 THEN <<>>
  ELSE IF Len(arr) = 1 THEN arr[1]
  ELSE arr[1] \o sep \o join(Tail(arr), sep)

\* String.prototype.split('/')
RECURSIVE split(_)
split(s) ==
  IF \A i \in 1..Len(s) : s[i] # "/" THEN <<s>>
  ELSE LET i == CHOOSE k \in 1..Len(s) :
                   s[k] = "/" /\ \A j \in 1..(k - 1) : s[j] # "/"
       IN <<SubSeq(s, 1, i - 1)>> \o split(SubSeq(s, i + 1, Len(s)))

\* all sequences over S of length at most n
RECURSIVE SeqsUpTo(_, _)
SeqsUpTo(S, n) ==
  IF n = 0 THEN {<<>>}
  ELSE LET shorter == SeqsUpTo(S, n - 1)
       IN shorter \cup {Append(q, x) : q \in shorter, x \in S}

(***************************************************************************)
(* helper.js                                                                *)
(***************************************************************************)

\* name.match(/^[-_.a-zA-Z0-9]+$/) !== null
isValidName(name) ==
  Len(name) > 0 /\ \A i \in 1..Len(name) : name[i] \in NameChar

\* One step of the matcher of /^(\/:?[-_.a-zA-Z0-9]+)+$/ : st is the place
\* in the group, "start" before a '/', "slash" after '/', "colon" after the
\* optional ':', "seg" inside [-_.a-zA-Z0-9]+ .
RECURSIVE matchGroups(_, _, _)
matchGroups(path, i, st) ==
  IF i > Len(path) THEN st = "seg"
  ELSE LET c == path[i] IN
    CASE st = "start" -> c = "/" /\ matchGroups(path, i + 1, "slash")
      [] st = "slash" -> \/ c = ":" /\ matchGroups(path, i + 1, "colon")
                         \/ c \in NameChar /\ matchGroups(path, i + 1, "seg")
      [] st = "colon" -> c \in NameChar /\ matchGroups(path, i + 1, "seg")
      [] st = "seg"   -> \/ c \in NameChar /\ matchGroups(path, i + 1, "seg")
                         \/ c = "/" /\ matchGroups(path, i + 1, "slash")

\* the matcher of /^(\/:?[-_.a-zA-Z0-9]*)+$/ : '*' where the code has '+'
RECURSIVE matchGroupsStar(_, _, _)
matchGroupsStar(path, i, st) ==
  IF i > Len(path) THEN st # "start"
  ELSE LET c == path[i] IN
    CASE st = "start" -> c = "/" /\ matchGroupsStar(path, i + 1, "slash")
      [] st = "slash" -> \/ c = ":" /\ matchGroupsStar(path, i + 1, "colon")
                         \/ c \in NameChar /\ matchGroupsStar(path, i + 1, "seg")
                         \/ c = "/" /\ matchGroupsStar(path, i + 1, "slash")
      [] st = "colon" -> \/ c \in NameChar /\ matchGroupsStar(path, i + 1, "seg")
                         \/ c = "/" /\ matchGroupsStar(path, i + 1, "slash")
      [] st = "seg"   -> \/ c \in NameChar /\ matchGroupsStar(path, i + 1, "seg")
                         \/ c = "/" /\ matchGroupsStar(path, i + 1, "slash")

isValidPathForNamedRoute_Star(path) ==
  IF path = <<"/">> THEN TRUE
  ELSE matchGroupsStar(path, 1, "start")

isValidPathForNamedRoute(path) ==
  IF path = <<"/">> THEN TRUE
  ELSE matchGroups(path, 1, "start")

\* toToken that never sets the input flag
toToken_NoInput(item) ==
  IF Len(item) > 0 /\ item[1] = ":"
  THEN [text |-> SubSeq(item, 2, Len(item))]
  ELSE [text |-> item]

toToken(item) ==
  IF Len(item) > 0 /\ item[1] = ":"
  THEN [text |-> SubSeq(item, 2, Len(item)), input |-> TRUE]
  ELSE [text |-> item]

\* the forEach loop of buildPath: keep the fragments that are not '/'
RECURSIVE slashIgnored(_)
slashIgnored(hierarchy) ==
  IF Len(hierarchy) = 0 THEN <<>>
  ELSE IF Head(hierarchy) # <<"/">>
       THEN <<Head(hierarchy)>> \o slashIgnored(Tail(hierarchy))
       ELSE slashIgnored(Tail(hierarchy))

\* buildPath that keeps the '/' fragments
buildPath_KeepSlash(hierarchy) ==
  LET cleanPathHierarchy == IF Len(hierarchy) = 0 THEN << <<"/">> >> ELSE hierarchy
  IN join(cleanPathHierarchy, <<>>)

buildPath(hierarchy) ==
  LET kept == slashIgnored(hierarchy)
      cleanPathHierarchy == IF Len(kept) = 0 THEN << <<"/">> >> ELSE kept
  IN join(cleanPathHierarchy, <<>>)

tokensToString(tokens) ==
  join([i \in 1..Len(tokens) |->
          LET token == tokens[i]
          IN IF "input" \in DOMAIN token /\ token.input
             THEN <<":">> \o token.text
             ELSE token.text],
       <<"/">>)

\* Property names every object literal inherits from Object.prototype (the
\* ones the inputs below can spell): routeTable[name] is truthy for them
\* although the table has no entry of its own.
ObjectPrototypeKeys ==
  { <<"c","o","n","s","t","r","u","c","t","o","r">>,
    <<"t","o","S","t","r","i","n","g">>,
    <<"v","a","l","u","e","O","f">> }

\* routeTable[name] is truthy
hasRoute(table, name) ==
  name \in DOMAIN table \/ name \in ObjectPrototypeKeys

\* routeTable[name] && (pattern !== routeTable[name].pattern); an inherited
\* property has no pattern (undefined), which differs from every string
isDuplicate(table, name, pattern) ==
  IF name \in DOMAIN table THEN pattern # table[name].pattern
  ELSE name \in ObjectPrototypeKeys

toTokens(pattern) ==
  LET parts == split(pattern)
  IN [i \in 1..Len(parts) |-> toToken(parts[i])]

\* routeTable[name] = {pattern: ..., tokens: ...}
setRoute(table, name, pattern) ==
  [k \in DOMAIN table \cup {name} |->
     IF k = name THEN [pattern |-> pattern, tokens |-> toTokens(pattern)]
     ELSE table[k]]

\* register without the duplicate check
register_NoDuplicateCheck(table, names, paths) ==
  LET name == join(names, <<".">>)
      pattern == buildPath(paths)
  IN IF ~isValidPathForNamedRoute(pattern)
     THEN [error |-> "MalformedPattern", routeTable |-> table]
     ELSE [error |-> "none", routeTable |-> setRoute(table, name, pattern)]

\* register without the pattern validation
register_NoValidation(table, names, paths) ==
  LET name == join(names, <<".">>)
      pattern == buildPath(paths)
  IN IF isDuplicate(table, name, pattern)
     THEN [error |-> "DuplicateRouteName", routeTable |-> table]
     ELSE [error |-> "none", routeTable |-> setRoute(table, name, pattern)]

\* register that rejects every name the table already has
register_RejectKnownName(table, names, paths) ==
  LET name == join(names, <<".">>)
      pattern == buildPath(paths)
  IN IF hasRoute(table, name)
     THEN [error |-> "DuplicateRouteName", routeTable |-> table]
     ELSE IF ~isValidPathForNamedRoute(pattern)
     THEN [error |-> "MalformedPattern", routeTable |-> table]
     ELSE [error |-> "none", routeTable |-> setRoute(table, name, pattern)]

\* register that writes the entry before it validates the pattern
register_WriteFirst(table, names, paths) ==
  LET name == join(names, <<".">>)
      pattern == buildPath(paths)
  IN IF isDuplicate(table, name, pattern)
     THEN [error |-> "DuplicateRouteName", routeTable |-> table]
     ELSE IF ~isValidPathForNamedRoute(pattern)
     THEN [error |-> "MalformedPattern", routeTable |-> setRoute(table, name, pattern)]
     ELSE [error |-> "none", routeTable |-> setRoute(table, name, pattern)]

\* register that joins the name hierarchy with '/'
register_JoinSlash(table, names, paths) ==
  LET name == join(names, <<"/">>)
      pattern == buildPath(paths)
  IN IF isDuplicate(table, name, pattern)
     THEN [error |-> "DuplicateRouteName", routeTable |-> table]
     ELSE IF ~isValidPathForNamedRoute(pattern)
     THEN [error |-> "MalformedPattern", routeTable |-> table]
     ELSE [error |-> "none", routeTable |-> setRoute(table, name, pattern)]

\* register: the error it throws ("none" when it returns) and the table
\* it leaves behind
register(table, names, paths) ==
  LET name == join(names, <<".">>)
      pattern == buildPath(paths)
  IN IF isDuplicate(table, name, pattern)
     THEN [error |-> "DuplicateRouteName", routeTable |-> table]
     ELSE IF ~isValidPathForNamedRoute(pattern)
     THEN [error |-> "MalformedPattern", routeTable |-> table]
     ELSE [error |-> "none", routeTable |-> setRoute(table, name, pattern)]

\* constants.PUSH, constants.POP
PUSH == "PUSH"

POP == "POP"

Undefined == [undefined |-> TRUE]

\* isTerminalRoute that does not compare the names
isTerminalRoute_IgnoreName(previousEvent, event) ==
  IF previousEvent = Undefined THEN FALSE
  ELSE previousEvent.operation = PUSH /\ event.operation = POP

isTerminalRoute(previousEvent, event) ==
  IF previousEvent = Undefined THEN FALSE
  ELSE IF previousEvent.operation = PUSH /\ event.operation = POP
       THEN previousEvent.name = event.name
       ELSE FALSE

(***************************************************************************)
(* Inputs.                                                                  *)
(***************************************************************************)
\* fragments a route declaration passes to register
PathFragments == { <<"/">>, <<"/", "a">>, <<"/", ":", "a">>, <<"/", ":">> }

PathHierarchies == SeqsUpTo(PathFragments, MaxPathDepth)

NameHierarchies ==
  { <<>>,
    << <<"a">>, <<"b">> >>,
    << <<"a", ".", "b">> >>,
    << <<"c","o","n","s","t","r","u","c","t","o","r">> >> }

\* inputs of the pure helpers
PatternChars == {"/", ":", "a", "."}

Patterns == SeqsUpTo(PatternChars, MaxPatternLen)

BuildFragments == PathFragments \cup { <<>>, <<"a">>, <<":", "a">> }

BuildHierarchies == SeqsUpTo(BuildFragments, MaxBuildDepth)

Events == [operation : {PUSH, POP, "REPLACE"}, name : {"x", "y"}]

NoInput == [kind |-> "none"]

NoOutput == [done |-> FALSE]

(***************************************************************************)
(* The route table under repeated register calls.                           *)
(***************************************************************************)
Init ==
  /\ routeTable = <<>>
  /\ before = <<>>
  /\ nameHierarchy = <<>>
  /\ pathHierarchy = <<>>
  /\ result = "none"
  /\ calls = 0
  /\ input = NoInput
  /\ output = NoOutput

Register(names, paths) ==
  /\ calls < MaxCalls
  /\ LET r == register(routeTable, names, paths)
     IN /\ routeTable' = r.routeTable
        /\ result' = r.error
  /\ before' = routeTable
  /\ nameHierarchy' = names
  /\ pathHierarchy' = paths
  /\ calls' = calls + 1
  /\ UNCHANGED <<input, output>>

Next == \E names \in NameHierarchies, paths \in PathHierarchies : Register(names, paths)

Spec == Init /\ [][Next]_vars

(***************************************************************************)
(* The pure helpers, each applied once to an input drawn by InitPure.       *)
(***************************************************************************)
InitPure ==
  /\ routeTable = <<>>
  /\ before = <<>>
  /\ nameHierarchy = <<>>
  /\ pathHierarchy = <<>>
  /\ result = "none"
  /\ calls = 0
  /\ output = NoOutput
  /\ \/ \E p \in Patterns : input = [kind |-> "pattern", pattern |-> p]
     \/ \E h \in BuildHierarchies : input = [kind |-> "hierarchy", hierarchy |-> h]
     \/ \E prev \in Events \cup {Undefined}, ev \in Events :
          input = [kind |-> "events", previousEvent |-> prev, event |-> ev]

RoundTrip ==
  /\ input.kind = "pattern"
  /\ ~output.done
  /\ output' = [done |-> TRUE,
                value |-> tokensToString(toTokens(input.pattern))]
  /\ UNCHANGED <<routeTable, before, nameHierarchy, pathHierarchy, result, calls, input>>

BuildPath ==
  /\ input.kind = "hierarchy"
  /\ ~output.done
  /\ output' = [done |-> TRUE, value |-> buildPath(input.hierarchy)]
  /\ UNCHANGED <<routeTable, before, nameHierarchy, pathHierarchy, result, calls, input>>

IsTerminalRoute ==
  /\ input.kind = "events"
  /\ ~output.done
  /\ output' = [done |-> TRUE,
                value |-> isTerminalRoute(input.previousEvent, input.event)]
  /\ UNCHANGED <<routeTable, before, nameHierarchy, pathHierarchy, result, calls, input>>

NextPure == RoundTrip \/ BuildPath \/ IsTerminalRoute

SpecPure == InitPure /\ [][NextPure]_vars

(***************************************************************************)
(* Properties.  before is the table as the last register call found it,   *)
(* so a state with calls > 0 shows one whole call: its arguments, the       *)
(* table before, the table after and the error thrown.                      *)
(***************************************************************************)
\* the name and the pattern the last register call computed
CallName == join(nameHierarchy, <<".">>)

CallPattern == buildPath(pathHierarchy)

\* the grammar of a named-route path, segment by segment: '/' alone, or an
\* empty first segment followed by segments that are a non-empty run of
\* name characters after an optional leading ':'
WellFormedPath(p) ==
  \/ p = <<"/">>
  \/ LET segs == split(p)
     IN /\ Len(segs) >= 2
        /\ segs[1] = <<>>
        /\ \A i \in 2..Len(segs) :
             LET body == IF Len(segs[i]) > 0 /\ segs[i][1] = ":"
                         THEN Tail(segs[i]) ELSE segs[i]
             IN Len(body) > 0 /\ \A j \in 1..Len(body) : body[j] \in NameChar

IsParam(seg) == Len(seg) > 1 /\ seg[1] = ":"

\* two consecutive segments that both begin with ':'
HasAdjacentParams(p) ==
  LET segs == split(p)
  IN \E i \in 1..(Len(segs) - 1) : IsParam(segs[i]) /\ IsParam(segs[i + 1])

\* a segment that is ':' with no name after it
HasBareColon(p) ==
  LET segs == split(p)
  IN \E i \in 1..Len(segs) : segs[i] = <<":">>

\* the fragments of h that are not '/', concatenated character by character
RECURSIVE ConcatKept(_, _)
ConcatKept(h, i) ==
  IF i = 0 THEN <<>>
  ELSE IF h[i] = <<"/">> THEN ConcatKept(h, i - 1)
  ELSE ConcatKept(h, i - 1) \o h[i]

\* C1: a register call for a name the table already has with a different
\* pattern throws DuplicateRouteName and writes nothing, so no call ever
\* changes the pattern stored for a name.
C1_DuplicateRouteName ==
  calls > 0 =>
    /\ (CallName \in DOMAIN before /\ before[CallName].pattern # CallPattern)
         => (result = "DuplicateRouteName" /\ routeTable = before)
    /\ \A k \in DOMAIN before :
         k \in DOMAIN routeTable /\ routeTable[k].pattern = before[k].pattern

C1_Witness ==
  /\ result = "DuplicateRouteName"
  /\ CallName \in DOMAIN before
  /\ before[CallName].pattern # CallPattern
  /\ isValidPathForNamedRoute(CallPattern)

\* C2 as stated (for names that are no inherited property name): whenever
\* the computed pattern is not a valid path, the call throws
\* MalformedPattern, whatever the table holds.
C2_MalformedAlways ==
  (calls > 0 /\ ~WellFormedPath(CallPattern) /\ CallName \notin ObjectPrototypeKeys)
    => result = "MalformedPattern"

\* C2: a call whose computed pattern is not a valid path always throws;
\* it throws MalformedPattern when routeTable[name] is empty, and
\* DuplicateRouteName when routeTable[name] exists, that test coming first.
C2_MalformedPattern ==
  (calls > 0 /\ ~WellFormedPath(CallPattern)) =>
    result = IF hasRoute(before, CallName)
             THEN "DuplicateRouteName" ELSE "MalformedPattern"

C2_Witness ==
  /\ result = "MalformedPattern"
  /\ ~WellFormedPath(CallPattern)
  /\ CallName \notin DOMAIN before
  /\ before # <<>>

\* C3: every entry of the table has a valid pattern, with no empty segment
\* unless it is '/', and its tokens are the pattern's segments, in order,
\* each converted by toToken.
C3_EntriesWellFormed ==
  \A k \in DOMAIN routeTable :
    LET e == routeTable[k]
        segs == split(e.pattern)
    IN /\ isValidPathForNamedRoute(e.pattern)
       /\ WellFormedPath(e.pattern)
       /\ e.pattern = <<"/">> \/ \A i \in 2..Len(segs) : segs[i] # <<>>
       /\ Len(e.tokens) = Len(segs)
       /\ \A i \in 1..Len(segs) :
            /\ e.tokens[i] = toToken(segs[i])
            /\ e.tokens[i].text = IF IsParam(segs[i]) THEN Tail(segs[i]) ELSE segs[i]
            /\ ("input" \in DOMAIN e.tokens[i]) = IsParam(segs[i])

C3_Witness ==
  /\ result # "none"
  /\ ~WellFormedPath(CallPattern)
  /\ \E k \in DOMAIN routeTable :
       /\ Len(routeTable[k].tokens) = 3
       /\ "input" \in DOMAIN routeTable[k].tokens[3]

\* C4: a register call keeps every entry the table had, pattern and tokens,
\* and a call for a name the table has with the same pattern returns
\* normally and leaves the table as it was.
C4_AppendOnly ==
  calls > 0 =>
    /\ \A k \in DOMAIN before :
         k \in DOMAIN routeTable /\ routeTable[k] = before[k]
    /\ (CallName \in DOMAIN before /\ before[CallName].pattern = CallPattern)
         => (result = "none" /\ routeTable = before)

C4_Witness ==
  /\ result = "none"
  /\ CallName \in DOMAIN before
  /\ before[CallName].pattern = CallPattern
  /\ Len(pathHierarchy) = 2

\* C5: splitting a valid pattern on '/', converting each segment by
\* toToken and rendering the tokens by tokensToString gives the pattern back.
C5_RoundTrip ==
  (input.kind = "pattern" /\ output.done
     /\ isValidPathForNamedRoute(input.pattern))
    => output.value = input.pattern

C5_Witness ==
  /\ input.kind = "pattern"
  /\ output.done
  /\ input.pattern = <<"/", "a", "/", ":", "a">>
  /\ isValidPathForNamedRoute(input.pattern)
  /\ output.value = input.pattern

\* C6: buildPath returns the fragments other than '/', concatenated in
\* order with nothing between them, and '/' when none is left.
C6_BuildPath ==
  (input.kind = "hierarchy" /\ output.done) =>
    LET h == input.hierarchy
        kept == ConcatKept(h, Len(h))
    IN output.value = IF \A i \in 1..Len(h) : h[i] = <<"/">>
                      THEN <<"/">> ELSE kept

C6_Witness ==
  /\ input.kind = "hierarchy"
  /\ output.done
  /\ input.hierarchy = << <<"/", "a">>, <<"/">>, <<"/", ":", "a">> >>
  /\ output.value = <<"/", "a", "/", ":", "a">>

\* C7 as stated: every key of the table is a route name, a non-empty
\* string of name characters.
C7_KeysAreRouteNames ==
  \A k \in DOMAIN routeTable : isValidName(k)

\* C7: a register call adds no key but the '.'-join of the name hierarchy
\* it was given, and that key is a route name when the hierarchy is
\* non-empty and each of its segments satisfies isValidName.
C7_KeysAreJoinedNames ==
  calls > 0 =>
    /\ DOMAIN routeTable \subseteq DOMAIN before \cup {CallName}
    /\ result = "none" => CallName \in DOMAIN routeTable
    /\ (/\ result = "none"
        /\ Len(nameHierarchy) > 0
        /\ \A i \in 1..Len(nameHierarchy) : isValidName(nameHierarchy[i]))
         => \A i \in 1..Len(CallName) : CallName[i] \in NameChar

C7_Witness ==
  /\ result = "none"
  /\ Len(nameHierarchy) = 2
  /\ CallName \in DOMAIN routeTable
  /\ CallName \notin DOMAIN before
  /\ CallName = <<"a", ".", "b">>

\* C8 as stated (for a name routeTable has nothing under, so that the
\* duplicate test cannot throw first): a call whose joined pattern has two
\* adjacent parameter segments throws MalformedPattern.
C8_AdjacentParamsRejected ==
  (calls > 0 /\ HasAdjacentParams(CallPattern) /\ ~hasRoute(before, CallName))
    => result = "MalformedPattern"

\* C8: a call whose joined pattern has a parameter marker with no name
\* after it (a segment that is ':' alone) throws, whichever fragment
\* brought the marker, and writes nothing: MalformedPattern when
\* routeTable[name] is empty, DuplicateRouteName otherwise; a pattern
\* that is well formed but for two adjacent parameter segments is stored.
C8_BareColonRejected ==
  calls > 0 =>
    /\ HasBareColon(CallPattern) =>
         /\ result = IF hasRoute(before, CallName)
                     THEN "DuplicateRouteName" ELSE "MalformedPattern"
         /\ routeTable = before
    /\ (/\ HasAdjacentParams(CallPattern)
        /\ WellFormedPath(CallPattern)
        /\ ~hasRoute(before, CallName))
         => /\ result = "none"
            /\ routeTable[CallName].pattern = CallPattern

C8_Witness ==
  /\ result = "MalformedPattern"
  /\ pathHierarchy = << <<"/", ":", "a">>, <<"/", ":">> >>
  /\ HasBareColon(CallPattern)
  /\ before # <<>>

\* C9: isTerminalRoute returns a boolean, true exactly when previousEvent
\* is defined, is a PUSH, event is a POP and the two names are equal.
C9_IsTerminalRoute ==
  (input.kind = "events" /\ output.done) =>
    /\ output.value \in BOOLEAN
    /\ output.value =
         (/\ input.previousEvent # Undefined
          /\ input.previousEvent.operation = PUSH
          /\ input.event.operation = POP
          /\ input.previousEvent.name = input.event.name)

C9_Witness ==
  /\ input.kind = "events"
  /\ output.done
  /\ output.value = TRUE
  /\ input.previousEvent # Undefined
  /\ input.previousEvent.name = input.event.name

\* C10: a register call that throws leaves the table as it was, and one
\* that returns changes nothing but the entry of the name it computed.
C10_Frame ==
  calls > 0 =>
    /\ result # "none" => routeTable = before
    /\ result = "none" =>
         /\ DOMAIN routeTable = DOMAIN before \cup {CallName}
         /\ \A k \in DOMAIN before \ {CallName} : routeTable[k] = before[k]

C10_Witness ==
  /\ result = "MalformedPattern"
  /\ before # <<>>
  /\ routeTable = before

====
